---- MODULE Spec2Model ----
(***************************************************************************)
(* Model of src/main.py: the GitLab client (session with urllib3 retries,  *)
(* paginate, get_recent_committers) and main()'s two phases (discovery of  *)
(* groups and projects, enumeration of recent committers and aggregation). *)
(* The GitLab server is the environment: every HTTP attempt receives a     *)
(* nondeterministically chosen answer.                                     *)
(***************************************************************************)
EXTENDS Integers, Sequences, FiniteSets, TLC

(* ------------------------------ bounds -------------------------------- *)
\* The server hands out a next-page link only on the first MaxPages - 1
\* pages of one fetch (caps the otherwise unbounded pagination loop).
MaxPages == 2
\* Longest list of JSON items the server puts on one page.
MaxPageLen == 2
\* The server owns at most this many items of one listing (groups,
\* projects of a group): a page never makes a listing longer than this.
MaxListing == 2
\* Longest standard output of cx.exe, in characters.
MaxStdout == 2
\* Most insertions into one project's map by the aggregator on its own.
MaxInserts == 4

(* ------------------------- program constants -------------------------- *)
\* Retry(total=5, ...)
RetryTotal == 5
\* status_forcelist=[429, 502, 503, 504]
StatusForcelist == {429, 502, 503, 504}
\* response.status_code != 200
StatusOk == 200
\* The key main() stores the per-project counter under.
CounterKey == "unique_contributors"
\* The value stored for every committer email.
RoleValue == [role |-> "Active Contributor (last 90 days)"]

(* ------------------------- the server's world ------------------------- *)
\* Statuses the session does not retry and paginate treats as an error.
ErrorStatuses == {404, 500}
GroupItems == {[id |-> 1, name |-> "g1"], [id |-> 2, name |-> "g2"]}
\* The third project item lacks 'path_with_namespace'.
ProjectItems ==
    {[id |-> 1, path_with_namespace |-> "g/p1"],
     [id |-> 2, path_with_namespace |-> "g/p2"],
     [id |-> 3]}
\* Identities that follow the bot-naming convention of the specification.
BotIdentities == {"bot_ci"}
Emails == {"alice", "bot_ci", CounterKey}
\* Commits: with an author email, with an empty one, with none.
CommitItems ==
    {[author_email |-> e] : e \in Emails} \cup {[author_email |-> ""], [title |-> "t"]}

SeqsUpTo(S, n) == UNION {[1..k -> S] : k \in 0..n}

(* ------------------------------ state --------------------------------- *)
VARIABLES
    pc,                \* position of main(): see Init and the actions
    action,            \* args.action
    error,             \* the exception that ended main(), or "none"
    networkUsed,       \* an HTTP request has been issued
    call,              \* the client operation in progress: [op, id]
    fetchState,        \* "idle" | "loop" | "returned" | "raised"
    url,               \* paginate / get_recent_committers local 'url'
    params,            \* TRUE while the local 'params' is not None
    results,           \* paginate local 'results'
    recent_committers, \* get_recent_committers local 'recent_committers'
    attempts,          \* HTTP attempts made by the last session.get call
    offered,           \* the server's answers offered to that call: [k, final]
    last_status,       \* status of the last response handed to the loop (0: none)
    requests,          \* log of the requests of this fetch: [url, params]
    pages,             \* log of the 200 responses of this fetch: [empty, next]
    servedItems,       \* concatenation of the items of the 200 pages of this fetch
    servedEmails,      \* non-empty author emails on the 200 pages of this fetch
    groups,            \* main local 'groups'
    gi,                \* index of the group loop
    all_projects,      \* main local 'all_projects'
    pi,                \* index of the project loop
    project_data,      \* main local 'project_data'
    unique_users,      \* main local 'unique_users'
    project_contributors,     \* main local, the map being filled
    unique_proj_contributors, \* main local counter
    todo,              \* emails of recent_committers not yet iterated
    queried,           \* project ids passed to get_recent_committers, in order
    committer_sets,    \* the sets get_recent_committers returned to main, in order
    failed,            \* indexes of all_projects whose commit fetch failed
    final_output,      \* main local 'final_output' (NoOutput until built)
    calls,             \* log of the client operations called: [op, id]
    cx_state,          \* "not_run" | "not_started" | "exited": subprocess.run
    cx_returncode,     \* result.returncode (-1 until cx.exe has exited)
    cx_file            \* text of cx_unique_contributors_output.txt

mainVars == <<pc, action, error, groups, gi, all_projects, pi, project_data,
              unique_users, project_contributors, unique_proj_contributors,
              todo, queried, committer_sets, failed, final_output, cx_state,
              cx_returncode, cx_file>>
cxVars == <<cx_state, cx_returncode, cx_file>>
fetchVars == <<call, fetchState, url, params, results, recent_committers,
               attempts, offered, last_status, requests, pages, servedItems, servedEmails>>
vars == <<mainVars, fetchVars, networkUsed, calls>>

EmptyMap == [k \in {} |-> 0]
NoUrl == [kind |-> "none", id |-> 0]
NoCall == [op |-> "none", id |-> 0]
NoOutput == [built |-> FALSE]
NoScript == [k |-> 0, final |-> 0]
\* What cx_unique_contributors_output.txt holds before the run.
OldOutput == <<"old">>

\* A client operation called on its own (ClientSpec), not from main().
Standalone == pc = "client"
\* Opaque next-page URLs the server may put in the Link header.
Links == IF Standalone THEN {1, 2} ELSE {1}

\* f"{self.base_url}{endpoint}"
EndpointUrl(op, id) == [kind |-> op, id |-> id]
\* response.links.get('next', {}).get('url')
LinkUrl(l) == [kind |-> "link", id |-> l]

(* --------------------- the session and its retries -------------------- *)
\* The answers a server gives to the successive attempts of one request:
\* k retryable statuses (taken in turn from the force list), then 'final'.
RetryableAt(i) == <<429, 502, 503, 504>>[((i - 1) % 4) + 1]
Script(k, final) == [i \in 1..(k + 1) |-> IF i <= k THEN RetryableAt(i) ELSE final]
\* More retryable answers in a row than the retry budget consumes.
MaxRetryable == RetryTotal + 2
\* How many retryable answers the server gives before the final one: any
\* number against a client operation called on its own; during a whole run
\* none, or retryable answers to every attempt.
RetryableRuns == IF Standalone THEN 0..MaxRetryable ELSE {0, MaxRetryable}
FinalStatuses == {StatusOk} \cup ErrorStatuses

\* urllib3 Retry.is_retry for a GET: the status is in status_forcelist.
IsRetry(status) == status \in StatusForcelist
\* urllib3 Retry.increment: one retry is taken off 'total'.
Increment(t) == t - 1
\* A retry budget that counts attempts instead of retries.
IsExhaustedAtZero(t) == t <= 0
\* urllib3 Retry.is_exhausted: the counter has dropped below zero.
IsExhausted(t) == t < 0

\* session.get(url, ...) through HTTPAdapter(max_retries=retries): attempt
\* i receives script[i]; a status of the force list takes one retry and is
\* tried again until the Retry object is exhausted, which raises RetryError.
RECURSIVE SendFrom(_, _, _)
SendFrom(script, i, t) ==
    IF i > Len(script)
    THEN [outcome |-> "RetryError", status |-> 0, attempts |-> i - 1]
    ELSE IF IsRetry(script[i])
         THEN IF IsExhausted(Increment(t))
              THEN [outcome |-> "RetryError", status |-> script[i], attempts |-> i]
              ELSE SendFrom(script, i + 1, Increment(t))
         ELSE [outcome |-> "response", status |-> script[i], attempts |-> i]
SessionGet(script) == SendFrom(script, 1, RetryTotal)

(* ----------------------------- the client ----------------------------- *)
PaginateOps == {"get_groups", "get_group_projects"}

\* What the server may put on one page of the listing behind 'op'.
Pages(op) ==
    CASE op = "get_groups" -> SeqsUpTo(GroupItems, MaxPageLen)
      [] op = "get_group_projects" -> SeqsUpTo(ProjectItems, MaxPageLen)
      [] OTHER -> SeqsUpTo(CommitItems, MaxPageLen)
\* During a whole run the server lists every group and every project once:
\* the items of a page are distinct and new to the listing and to the
\* projects already discovered (no project is shared between two groups).
Ids(items) == {items[i].id : i \in 1..Len(items)}
Fresh(items) ==
    Standalone \/
    /\ Cardinality(Ids(items)) = Len(items)
    /\ Ids(items) \cap Ids(servedItems) = {}
    /\ call.op = "get_group_projects" => Ids(items) \cap Ids(all_projects) = {}

\* The Link header of a 200 response: no next link, or one of Links while
\* the fetch has received fewer than MaxPages - 1 pages before this one.
NextChoices == {NoUrl} \cup (IF Len(pages) + 1 < MaxPages THEN {LinkUrl(l) : l \in Links} ELSE {})

\* A page that replaces what was collected instead of extending it.
ExtendReplacing(rs, items) == items
\* results.extend(response.json())
Extend(rs, items) == rs \o items

\* What the server knows it served: the author emails of Emails that stand
\* on a commit of the page.
EmailsOnPage(items) ==
    {e \in Emails : \E i \in 1..Len(items) : items[i] = [author_email |-> e]}

\* Every author_email present on the page, the empty one included.
AuthorEmailsUnfiltered(items) ==
    {items[i].author_email :
        i \in {j \in 1..Len(items) : "author_email" \in DOMAIN items[j]}}
\* for commit in commit_data: if commit.get('author_email'): add it
AuthorEmails(items) ==
    {items[i].author_email :
        i \in {j \in 1..Len(items) :
                 /\ "author_email" \in DOMAIN items[j]
                 /\ items[j].author_email # ""}}

\* The parameters kept for the requests that follow a next link.
KeepParams(p) == p
\* params = None after a request went through
ClearParams(p) == FALSE

\* The locals of paginate / get_recent_committers when the loop is entered.
StartFetch(op, id) ==
    /\ call' = [op |-> op, id |-> id]
    /\ calls' = Append(calls, [op |-> op, id |-> id])
    /\ fetchState' = "loop"
    /\ url' = EndpointUrl(op, id)
    /\ params' = TRUE
    /\ results' = <<>>
    /\ recent_committers' = {}
    /\ attempts' = 0
    /\ offered' = NoScript
    /\ last_status' = 0
    /\ requests' = <<>>
    /\ pages' = <<>>
    /\ servedItems' = <<>>
    /\ servedEmails' = {}

\* No client operation is in progress.
FetchIdle ==
    /\ call' = NoCall
    /\ UNCHANGED calls
    /\ fetchState' = "idle"
    /\ url' = NoUrl
    /\ params' = FALSE
    /\ results' = <<>>
    /\ recent_committers' = {}
    /\ attempts' = 0
    /\ offered' = NoScript
    /\ last_status' = 0
    /\ requests' = <<>>
    /\ pages' = <<>>
    /\ servedItems' = <<>>
    /\ servedEmails' = {}

\* while url: one iteration of paginate's loop (lines 86-95).
PaginateIteration ==
    /\ fetchState = "loop"
    /\ call.op \in PaginateOps
    /\ url # NoUrl
    /\ requests' = Append(requests, [url |-> url, params |-> params])
    /\ networkUsed' = TRUE
    /\ \E k \in RetryableRuns, final \in FinalStatuses :
         LET r == SessionGet(Script(k, final)) IN
         /\ attempts' = r.attempts
         /\ offered' = [k |-> k, final |-> final]
         /\ IF r.outcome = "RetryError"
            THEN \* the exception leaves paginate: nothing is returned
                 /\ fetchState' = "raised"
                 /\ UNCHANGED <<url, params, results, last_status, pages,
                                servedItems>>
            ELSE IF r.status # StatusOk
            THEN \* logging.error(...); break; return results
                 /\ fetchState' = "returned"
                 /\ last_status' = r.status
                 /\ UNCHANGED <<url, params, results, pages, servedItems>>
            ELSE \E items \in Pages(call.op), next \in NextChoices :
                 /\ Len(servedItems) + Len(items) <= MaxListing
                 /\ Fresh(items)
                 /\ last_status' = r.status
                 /\ results' = Extend(results, items)
                 /\ url' = next
                 /\ params' = ClearParams(params)
                 /\ pages' = Append(pages, [empty |-> items = <<>>, next |-> next])
                 /\ servedItems' = servedItems \o items
                 /\ fetchState' = IF next = NoUrl THEN "returned" ELSE "loop"
    /\ UNCHANGED <<call, calls, recent_committers, servedEmails>>
    /\ UNCHANGED mainVars

\* while url: one iteration of get_recent_committers' loop (lines 135-149).
CommittersIteration ==
    /\ fetchState = "loop"
    /\ call.op = "get_recent_committers"
    /\ url # NoUrl
    /\ requests' = Append(requests, [url |-> url, params |-> params])
    /\ networkUsed' = TRUE
    /\ \E k \in RetryableRuns, final \in FinalStatuses :
         LET r == SessionGet(Script(k, final)) IN
         /\ attempts' = r.attempts
         /\ offered' = [k |-> k, final |-> final]
         /\ IF r.outcome = "RetryError"
            THEN /\ fetchState' = "raised"
                 /\ UNCHANGED <<url, params, recent_committers, last_status, pages,
                                servedEmails>>
            ELSE IF r.status # StatusOk
            THEN /\ fetchState' = "returned"
                 /\ last_status' = r.status
                 /\ UNCHANGED <<url, params, recent_committers, pages, servedEmails>>
            ELSE \E items \in Pages(call.op), next \in NextChoices :
                 /\ last_status' = r.status
                 /\ pages' = Append(pages, [empty |-> items = <<>>, next |-> next])
                 /\ servedEmails' = servedEmails \cup EmailsOnPage(items)
                 /\ IF items = <<>>
                    THEN \* if not commit_data: break
                         /\ fetchState' = "returned"
                         /\ UNCHANGED <<url, params, recent_committers>>
                    ELSE /\ recent_committers' = recent_committers \cup AuthorEmails(items)
                         /\ url' = next
                         /\ params' = ClearParams(params)
                         /\ fetchState' = IF next = NoUrl THEN "returned" ELSE "loop"
    /\ UNCHANGED <<call, calls, results, servedItems>>
    /\ UNCHANGED mainVars

(* ------------------------------- main --------------------------------- *)
\* os.environ.get(KEY) or get_config(section, key): the value is found
\* when the environment or the configuration store holds it.
Lookup(inEnv, inConfig) == inEnv \/ inConfig

\* d[k] = v on a dict
Put(d, k, v) == (k :> v) @@ d

\* The per-project counter as stored in the map (an integer in the code,
\* tagged here so that it compares with the role records).
Counter(n) == [count |-> n]

\* A loop that stops one element early.
LoopDoneOneEarly(i, xs) == i >= Len(xs)
\* for x in xs: the loop is over when position i is past the last element.
LoopDone(i, xs) == i > Len(xs)

\* A set that keeps only the last email added.
AddUserReplacing(users, email) == {email}
\* unique_users.add(email)
AddUser(users, email) == users \cup {email}

\* Lines 296-302 on the map: the email's entry, then the counter n + 1
\* under 'unique_contributors'.
InsertContributor(m, n, email) ==
    Put(Put(m, email, RoleValue), CounterKey, Counter(n + 1))

\* Lines 296-302: the body of 'for email in recent_committers'.
InsertStep(email) ==
    /\ project_contributors' =
           InsertContributor(project_contributors, unique_proj_contributors, email)
    /\ unique_users' = AddUser(unique_users, email)
    /\ unique_proj_contributors' = unique_proj_contributors + 1

\* The characters of cx.exe's standard output: a letter, a space, U+00A0.
Chars == {"x", " ", "nbsp"}
Stdouts == SeqsUpTo(Chars, MaxStdout)
ReturnCodes == {0, 1}
\* result.stdout.replace('\xa0', ' ')
ReplaceNbsp(text) == [i \in 1..Len(text) |-> IF text[i] = "nbsp" THEN " " ELSE text[i]]
\* str.strip()
RECURSIVE StripLeft(_)
StripLeft(text) ==
    IF text # <<>> /\ Head(text) = " " THEN StripLeft(Tail(text)) ELSE text
RECURSIVE StripRight(_)
StripRight(text) ==
    IF text # <<>> /\ text[Len(text)] = " "
    THEN StripRight(SubSeq(text, 1, Len(text) - 1))
    ELSE text
\* cleaned_output = result.stdout.replace('\xa0', ' ').strip()
CleanedOutput(stdout) == StripRight(StripLeft(ReplaceNbsp(stdout)))
\* An exit code that is not looked at.
ExitIgnored(rc) == TRUE
\* if result.returncode == 0
ExitOk(rc) == rc = 0

\* The items of 'projects' the loop of lines 246-250 can convert: those
\* before the first item that lacks 'id' or 'path_with_namespace'.
WellFormed(project) ==
    /\ "id" \in DOMAIN project
    /\ "path_with_namespace" \in DOMAIN project
RECURSIVE ConvertibleLen(_)
ConvertibleLen(projects) ==
    IF projects = <<>> \/ ~WellFormed(Head(projects))
    THEN 0
    ELSE 1 + ConvertibleLen(Tail(projects))
\* {'id': project['id'], 'name': project['path_with_namespace']}
ProjectInfo(project) == [id |-> project.id, name |-> project.path_with_namespace]
\* The convertible items appended last first.
ConvertedReversed(projects) ==
    [i \in 1..ConvertibleLen(projects) |->
        ProjectInfo(projects[ConvertibleLen(projects) + 1 - i])]
Converted(projects) ==
    [i \in 1..ConvertibleLen(projects) |-> ProjectInfo(projects[i])]

InitAt(p, actions) ==
    /\ pc = p
    /\ action \in actions
    /\ error = "none"
    /\ networkUsed = FALSE
    /\ call = NoCall
    /\ fetchState = "idle"
    /\ url = NoUrl
    /\ params = FALSE
    /\ results = <<>>
    /\ recent_committers = {}
    /\ attempts = 0
    /\ offered = NoScript
    /\ last_status = 0
    /\ requests = <<>>
    /\ pages = <<>>
    /\ servedItems = <<>>
    /\ servedEmails = {}
    /\ groups = <<>>
    /\ gi = 0
    /\ all_projects = <<>>
    /\ pi = 0
    /\ project_data = EmptyMap
    /\ unique_users = {}
    /\ project_contributors = EmptyMap
    /\ unique_proj_contributors = 0
    /\ todo = {}
    /\ queried = <<>>
    /\ committer_sets = <<>>
    /\ failed = {}
    /\ final_output = NoOutput
    /\ calls = <<>>
    /\ cx_state = "not_run"
    /\ cx_returncode = -1
    /\ cx_file = OldOutput

\* python main.py --action {run_cx,fetch_contributors}
Init == InitAt("start", {"run_cx", "fetch_contributors"})

\* Lines 222-231: the API key is looked up, the client is built and
\* get_groups() enters paginate.
ReadApiKey ==
    /\ pc = "start"
    /\ \E inEnv \in BOOLEAN, inConfig \in BOOLEAN :
         IF Lookup(inEnv, inConfig)
         THEN /\ pc' = "get_groups"
              /\ StartFetch("get_groups", 0)
              /\ UNCHANGED error
         ELSE /\ pc' = "raised"
              /\ error' = "ValueError(API_KEY)"
              /\ UNCHANGED <<fetchVars, calls>>
    /\ UNCHANGED <<action, groups, gi, all_projects, pi, project_data, unique_users,
                   project_contributors, unique_proj_contributors, todo, queried,
                   committer_sets,
                   failed, final_output, networkUsed>>
    /\ UNCHANGED cxVars

\* An exception raised inside session.get is caught neither by paginate /
\* get_recent_committers nor by main: it ends the run.
Propagate ==
    /\ pc \in {"get_groups", "group_projects", "committers"}
    /\ fetchState = "raised"
    /\ pc' = "raised"
    /\ error' = "RetryError"
    /\ FetchIdle
    /\ UNCHANGED <<action, groups, gi, all_projects, pi, project_data, unique_users,
                   project_contributors, unique_proj_contributors, todo, queried,
                   committer_sets,
                   failed, final_output, networkUsed>>
    /\ UNCHANGED cxVars

\* Lines 231-244: get_groups() returned; no groups ends the run, else the
\* group loop starts with the first group's projects.
AfterGetGroups ==
    /\ pc = "get_groups"
    /\ fetchState = "returned"
    /\ groups' = results
    /\ IF results = <<>>
       THEN /\ pc' = "no_groups"
            /\ gi' = 0
            /\ FetchIdle
       ELSE /\ pc' = "group_projects"
            /\ gi' = 1
            /\ StartFetch("get_group_projects", results[1].id)
    /\ all_projects' = <<>>
    /\ UNCHANGED <<action, error, pi, project_data, unique_users,
                   project_contributors, unique_proj_contributors, todo, queried,
                   committer_sets,
                   failed, final_output, networkUsed>>
    /\ UNCHANGED cxVars

\* Lines 244-250: get_group_projects() returned; its items are appended to
\* all_projects (KeyError on an item without the two fields), then the
\* next group is fetched or discovery is over.
AfterGroupProjects ==
    /\ pc = "group_projects"
    /\ fetchState = "returned"
    /\ all_projects' = all_projects \o Converted(results)
    /\ IF ConvertibleLen(results) < Len(results)
       THEN /\ pc' = "raised"
            /\ error' = "KeyError"
            /\ FetchIdle
            /\ UNCHANGED gi
       ELSE IF ~LoopDone(gi + 1, groups)
       THEN /\ gi' = gi + 1
            /\ StartFetch("get_group_projects", groups[gi + 1].id)
            /\ UNCHANGED <<pc, error>>
       ELSE /\ pc' = "discovered"
            /\ FetchIdle
            /\ UNCHANGED <<gi, error>>
    /\ UNCHANGED <<action, groups, pi, project_data, unique_users,
                   project_contributors, unique_proj_contributors, todo, queried,
                   committer_sets,
                   failed, final_output, networkUsed>>
    /\ UNCHANGED cxVars

\* Lines 263-277: the OAuth token is looked up and the project paths are
\* read back from the CSV file; run_cx_exe is entered, or the failure to
\* read the file is logged and main ends.
RunCx ==
    /\ pc = "discovered"
    /\ action = "run_cx"
    /\ \E inEnv \in BOOLEAN, inConfig \in BOOLEAN, csvRead \in BOOLEAN :
         IF Lookup(inEnv, inConfig)
         THEN /\ pc' = IF csvRead THEN "run_cx_exe" ELSE "done"
              /\ UNCHANGED error
         ELSE /\ pc' = "raised"
              /\ error' = "ValueError(oauth_token)"
    /\ UNCHANGED <<action, groups, gi, all_projects, pi, project_data, unique_users,
                   project_contributors, unique_proj_contributors, todo, queried,
                   committer_sets,
                   failed, final_output, networkUsed>>
    /\ UNCHANGED cxVars
    /\ UNCHANGED <<fetchVars, calls>>

\* run_cx_exe (lines 171-181): cx.exe cannot be started (subprocess.run
\* raises, the exception is logged), or it exits with a return code and a
\* standard output; the output file is written when the code is 0. Control
\* returns to main, which ends.
RunCxExe ==
    /\ pc = "run_cx_exe"
    /\ \E started \in BOOLEAN, rc \in ReturnCodes, stdout \in Stdouts :
         IF ~started
         THEN /\ cx_state' = "not_started"
              /\ UNCHANGED <<cx_returncode, cx_file>>
         ELSE /\ cx_state' = "exited"
              /\ cx_returncode' = rc
              /\ cx_file' = IF ExitOk(rc) THEN CleanedOutput(stdout) ELSE cx_file
    /\ pc' = "done"
    /\ UNCHANGED <<action, error, groups, gi, all_projects, pi, project_data,
                   unique_users, project_contributors, unique_proj_contributors,
                   todo, queried, committer_sets, failed, final_output, networkUsed>>
    /\ UNCHANGED <<fetchVars, calls>>

\* for project in all_projects: the loop moves to project i, calling
\* get_recent_committers(project_id), or is over.
EnterProject(i) ==
    IF ~LoopDone(i, all_projects)
    THEN /\ pi' = i
         /\ pc' = "committers"
         /\ queried' = Append(queried, all_projects[i].id)
         /\ StartFetch("get_recent_committers", all_projects[i].id)
    ELSE /\ pi' = i
         /\ pc' = "finalize"
         /\ FetchIdle
         /\ UNCHANGED queried

\* Lines 279-289: fetch_contributors starts the enumeration.
StartEnumeration ==
    /\ pc = "discovered"
    /\ action = "fetch_contributors"
    /\ project_data' = EmptyMap
    /\ unique_users' = {}
    /\ EnterProject(1)
    /\ UNCHANGED <<action, error, groups, gi, all_projects, committer_sets,
                   project_contributors, unique_proj_contributors, todo,
                   failed, final_output, networkUsed>>
    /\ UNCHANGED cxVars

\* Lines 289-294, 305-306: get_recent_committers() returned.
AfterCommitters ==
    /\ pc = "committers"
    /\ fetchState = "returned"
    /\ failed' = IF last_status # StatusOk THEN failed \cup {pi} ELSE failed
    /\ committer_sets' = Append(committer_sets, recent_committers)
    /\ IF recent_committers # {}
       THEN /\ pc' = "aggregate"
            /\ project_contributors' = EmptyMap
            /\ unique_proj_contributors' = 0
            /\ todo' = recent_committers
            /\ FetchIdle
            /\ UNCHANGED <<pi, queried>>
       ELSE /\ EnterProject(pi + 1)
            /\ UNCHANGED <<project_contributors, unique_proj_contributors, todo>>
    /\ UNCHANGED <<action, error, groups, gi, all_projects, project_data,
                   unique_users, final_output, networkUsed>>
    /\ UNCHANGED cxVars

\* Lines 295-302: one iteration of 'for email in recent_committers'.
AddContributor ==
    /\ pc = "aggregate"
    /\ \E email \in todo :
         /\ InsertStep(email)
         /\ todo' = todo \ {email}
    /\ UNCHANGED <<pc, action, error, groups, gi, all_projects, pi, project_data,
                   queried, committer_sets, failed, final_output, networkUsed>>
    /\ UNCHANGED cxVars
    /\ UNCHANGED <<fetchVars, calls>>

\* Line 304: the project's map is stored, and the project loop goes on.
StoreProject ==
    /\ pc = "aggregate"
    /\ todo = {}
    /\ project_data' = Put(project_data, all_projects[pi].name, project_contributors)
    /\ EnterProject(pi + 1)
    /\ UNCHANGED <<action, error, groups, gi, all_projects, unique_users,
                   committer_sets,
                   project_contributors, unique_proj_contributors, todo,
                   failed, final_output, networkUsed>>
    /\ UNCHANGED cxVars

\* Lines 309-313: the final aggregate is built.
Finalize ==
    /\ pc = "finalize"
    /\ final_output' = [built |-> TRUE,
                        projects |-> project_data,
                        unique_user_emails |-> unique_users,
                        total_users |-> Cardinality(unique_users)]
    /\ pc' = "done"
    /\ UNCHANGED <<action, error, groups, gi, all_projects, pi, project_data,
                   unique_users, project_contributors, unique_proj_contributors,
                   todo, queried, committer_sets, failed, networkUsed>>
    /\ UNCHANGED cxVars
    /\ UNCHANGED <<fetchVars, calls>>

Next ==
    \/ ReadApiKey
    \/ PaginateIteration
    \/ CommittersIteration
    \/ Propagate
    \/ AfterGetGroups
    \/ AfterGroupProjects
    \/ RunCx
    \/ RunCxExe
    \/ StartEnumeration
    \/ AfterCommitters
    \/ AddContributor
    \/ StoreProject
    \/ Finalize

Spec == Init /\ [][Next]_vars

(* ------------------ client operations called on their own ------------- *)
ClientInit == InitAt("client", {"none"})

\* get_groups(), get_group_projects(id) or get_recent_committers(id) is
\* called on a fresh client.
ClientCall ==
    /\ pc = "client"
    /\ fetchState = "idle"
    /\ \E op \in PaginateOps \cup {"get_recent_committers"} :
         StartFetch(op, IF op = "get_groups" THEN 0 ELSE 1)
    /\ UNCHANGED <<mainVars, networkUsed>>

ClientNext ==
    \/ ClientCall
    \/ PaginateIteration
    \/ CommittersIteration

ClientSpec == ClientInit /\ [][ClientNext]_vars

(* --------------------- the aggregation on its own --------------------- *)
\* Identities other than the key of the counter.
AggEmails == Emails \ {CounterKey}
ProjectNames == {"g/p1", "g/p2"}
AggInit == InitAt("aggregator", {"none"})

\* The loop body of lines 296-302 applied to any identity, also to one the
\* project's map already holds.
AggInsert ==
    /\ pc = "aggregator"
    /\ unique_proj_contributors < MaxInserts
    /\ \E email \in AggEmails : InsertStep(email)
    /\ UNCHANGED <<pc, action, error, groups, gi, all_projects, pi, project_data,
                   todo, queried, committer_sets, failed, final_output, networkUsed>>
    /\ UNCHANGED cxVars
    /\ UNCHANGED <<fetchVars, calls>>

\* Lines 293-294 and 304: the map is stored under a project's name and a
\* new map is started.
AggStore ==
    /\ pc = "aggregator"
    /\ project_contributors # EmptyMap
    /\ \E name \in ProjectNames :
         project_data' = Put(project_data, name, project_contributors)
    /\ project_contributors' = EmptyMap
    /\ unique_proj_contributors' = 0
    /\ UNCHANGED <<pc, action, error, groups, gi, all_projects, pi, unique_users,
                   todo, queried, committer_sets, failed, final_output, networkUsed>>
    /\ UNCHANGED cxVars
    /\ UNCHANGED <<fetchVars, calls>>

AggNext ==
    \/ AggInsert
    \/ AggStore

AggSpec == AggInit /\ [][AggNext]_vars

(* ------------------------------ claims -------------------------------- *)
\* An operation of the client has returned normally after a 200 answer to
\* every request it made.
AllPagesOk == fetchState = "returned" /\ last_status = StatusOk

\* C1: pagination completeness. When every request of a paginate call was
\* answered 200 (each page but the last with a next link), the list returned
\* is the concatenation of the items of the pages in page order, and one
\* request was made per page.
C1_PaginationComplete ==
    (call.op \in PaginateOps /\ AllPagesOk) =>
        /\ results = servedItems
        /\ Len(requests) = Len(pages)
        /\ pages[Len(pages)].next = NoUrl
        /\ \A i \in 1..(Len(pages) - 1) : pages[i].next # NoUrl
\* A paginate call over MaxPages non-empty pages has returned.
C1_Witness ==
    /\ call.op \in PaginateOps
    /\ AllPagesOk
    /\ Len(pages) = MaxPages
    /\ \A i \in 1..Len(pages) : ~pages[i].empty
    /\ Len(results) >= 2

\* C2: unique-count invariant as claimed. In the final aggregate,
\* total_users is the number of distinct keys over all per-project maps,
\* every key of a per-project map counting as an identity.
C2_UniqueCountOverKeys ==
    final_output.built =>
        final_output.total_users =
            Cardinality(UNION {DOMAIN final_output.projects[n] :
                                 n \in DOMAIN final_output.projects})

C4_PartialFailureIsolation ==
    /\ ~(pc = "raised" /\ error = "RetryError" /\ queried # <<>>)
    /\ final_output.built =>
          /\ Len(queried) = Len(all_projects)
          /\ \A i \in failed :
                all_projects[i].name \notin DOMAIN final_output.projects

\* C5: complete-or-fail as claimed. No paginated fetch returns normally
\* with the items of the pages before a page whose request ended with a
\* non-200 status.
C5_CompleteOrFail ==
    ~(/\ fetchState = "returned"
      /\ last_status # StatusOk
      /\ Len(pages) >= 1
      /\ (results # <<>> \/ recent_committers # {}))

\* C6: bot exclusion as claimed. No identity of the bot-naming convention
\* is ever a key of a per-project contributor map or an element of the
\* unique-user set.
C6_BotExclusion ==
    /\ unique_users \cap BotIdentities = {}
    /\ DOMAIN project_contributors \cap BotIdentities = {}
    /\ \A n \in DOMAIN project_data : DOMAIN project_data[n] \cap BotIdentities = {}

\* C7: parameters accompany only the first request. In every fetch the
\* first request goes to the endpoint with the query parameters, and every
\* later request goes to the next link of the page before it, verbatim,
\* with no parameters.
C7_ParamsFirstOnly ==
    \A i \in 1..Len(requests) :
        IF i = 1
        THEN /\ requests[i].params
             /\ requests[i].url = EndpointUrl(call.op, call.id)
        ELSE /\ ~requests[i].params
             /\ requests[i].url = pages[i - 1].next
\* A fetch has sent a second request, after a page with a next link.
C7_Witness ==
    /\ Len(requests) >= 2
    /\ pages[1].next # NoUrl
    /\ fetchState = "returned"

\* C8: termination rule as claimed. In every fetch no request follows a
\* page without a next link, and none follows a page with zero items, with
\* or without a next link.
C8_StopsAfterLastOrEmptyPage ==
    \A i \in 1..Len(pages) :
        (pages[i].next = NoUrl \/ pages[i].empty) => Len(requests) <= i

\* C9: a completed run always produces an aggregate, as claimed. A
\* fetch_contributors run that has its API key and has enumerated at least
\* one group is never ended by an exception before the aggregate is built.
C9_RunReachesAggregate ==
    ~(/\ action = "fetch_contributors"
      /\ groups # <<>>
      /\ pc = "raised"
      /\ ~final_output.built)

\* C10: configuration fail-fast as claimed. A run that ends because a
\* required credential (API key, OAuth token) is missing has issued no
\* network request.
C10_ConfigFailFast ==
    (pc = "raised" /\ error \in {"ValueError(API_KEY)", "ValueError(oauth_token)"}) =>
        ~networkUsed

\* C17: recent-committer extraction. When every commits request of a
\* get_recent_committers call was answered 200, the set returned is exactly
\* the set of non-empty author emails on the pages served, and the fetch
\* stopped only at a page without a next link or without commits: a commit
\* without an author email adds nothing and does not stop it.
C17_RecentCommitters ==
    (call.op = "get_recent_committers" /\ AllPagesOk) =>
        /\ recent_committers = servedEmails
        /\ "" \notin recent_committers
        /\ Len(requests) = Len(pages)
        /\ pages[Len(pages)].next = NoUrl \/ pages[Len(pages)].empty
        /\ \A i \in 1..(Len(pages) - 1) : pages[i].next # NoUrl /\ ~pages[i].empty
\* A call has returned after two pages of commits none of which had an
\* author email: the first page did not stop the fetch.
C17_Witness ==
    /\ call.op = "get_recent_committers"
    /\ AllPagesOk
    /\ Len(pages) >= 2
    /\ \A i \in 1..Len(pages) : ~pages[i].empty
    /\ recent_committers = {}

\* C12: external process failure. When cx.exe could not be started, or
\* exited with a code other than 0, run_cx_exe has left the output file as
\* it was and raised nothing, and main has gone on to its end; the output
\* file differs from what it was only after an exit with code 0.
C12_ExternalProcessFailure ==
    /\ (cx_state = "not_started" \/ (cx_state = "exited" /\ cx_returncode # 0)) =>
           /\ cx_file = OldOutput
           /\ pc = "done"
           /\ error = "none"
    /\ cx_file # OldOutput => (cx_state = "exited" /\ cx_returncode = 0)
\* cx.exe has exited with a code other than 0 and main is over.
C12_Witness ==
    /\ cx_state = "exited"
    /\ cx_returncode # 0
    /\ pc = "done"

\* The project listing of the group in hand has failed: session.get raised,
\* or the last answer was not a 200.
ListingFailed ==
    /\ pc = "group_projects"
    /\ \/ fetchState = "raised"
       \/ fetchState = "returned" /\ last_status # StatusOk
\* The project listing of the group in hand returned no project at all.
ListingEmpty ==
    /\ pc = "group_projects"
    /\ fetchState = "returned"
    /\ last_status = StatusOk
    /\ results = <<>>
\* C13: group failure isolation in discovery. The step main takes after a
\* group's project listing has failed adds no project to the flattened
\* list; after a failed or an empty listing the next group is queried, or
\* discovery is over after the last group, and no error ends the run.
C13_GroupFailureIsolation ==
    [][(ListingFailed \/ ListingEmpty) =>
          /\ ListingFailed => all_projects' = all_projects
          /\ error' = "none"
          /\ pc' = IF gi < Len(groups) THEN "group_projects" ELSE "discovered"
          /\ gi < Len(groups) =>
                call' = [op |-> "get_group_projects", id |-> groups[gi + 1].id]]_vars

\* The positions of the log of client calls at which 'op' was called.
CallsOf(op) == {i \in 1..Len(calls) : calls[i].op = op}
\* Discovery has finished: the group loop was left after its last group.
DiscoveryOver ==
    pc \in {"discovered", "run_cx_exe", "committers", "aggregate", "finalize", "done"}
C15_StableProjectOrder ==
    [][LET consumed == pc = "group_projects" /\ fetchState = "returned"
       IN /\ \A i \in 1..Len(all_projects) :
                i <= Len(all_projects') /\ all_projects'[i] = all_projects[i]
          /\ (consumed /\ \A i \in 1..Len(results) : WellFormed(results[i])) =>
                /\ call = [op |-> "get_group_projects", id |-> groups[gi].id]
                /\ Len(all_projects') = Len(all_projects) + Len(results)
                /\ \A i \in 1..Len(results) :
                      all_projects'[Len(all_projects) + i] =
                          [id |-> results[i].id, name |-> results[i].path_with_namespace]
          /\ ~consumed => all_projects' = all_projects]_vars
\* Discovery has finished over two groups that listed one project each.
C15_Witness ==
    /\ pc = "discovered"
    /\ Len(groups) = 2
    /\ Len(all_projects) = 2
    /\ calls[Len(calls)].id = groups[2].id

\* C16: monotone unique set. From the start of the enumeration on, every
\* step leaves unique_users a superset of its previous value, and the
\* total_users of the aggregate a step builds is the number of elements of
\* unique_users at that step, the end of the run.
C16_MonotoneUniqueSet ==
    [][/\ unique_users \subseteq unique_users'
       /\ (~final_output.built /\ final_output'.built) =>
             /\ final_output'.total_users = Cardinality(unique_users)
             /\ final_output'.unique_user_emails = unique_users
             /\ pc' = "done"
       /\ final_output.built => UNCHANGED <<unique_users, final_output>>]_vars
\* The aggregate of a run over two projects reports two users, the second
\* of them added while the first was already in the set.
C16_Witness ==
    /\ final_output.built
    /\ Len(all_projects) = 2
    /\ final_output.total_users = 2
    /\ Cardinality(DOMAIN final_output.projects) = 2
    /\ \A name \in DOMAIN final_output.projects :
          Cardinality(DOMAIN final_output.projects[name]) = 2

C18_StoredCounter ==
    final_output.built =>
        \A name \in DOMAIN final_output.projects :
            LET m == final_output.projects[name]
            IN /\ CounterKey \in DOMAIN m
               /\ m[CounterKey] =
                      Counter(Cardinality({k \in DOMAIN m : m[k] = RoleValue}))
               /\ \A email \in final_output.unique_user_emails \cap DOMAIN m :
                      m[email] = RoleValue

\* The identities an entry of the projects map records: the keys that hold
\* a role record.
IdentitiesOf(m) == {k \in DOMAIN m : m[k] = RoleValue}
\* C19: entries and committer sets. A project whose iteration has finished
\* has an entry in the projects map exactly when the committer set fetched
\* for it was not empty; no entry records zero identities; and outside the
\* iteration of a project every identity of unique_users is a key of some
\* entry.
C19_EntryIffCommitters ==
    /\ \A i \in 1..Len(committer_sets) :
          i < pi => (all_projects[i].name \in DOMAIN project_data <=>
                        committer_sets[i] # {})
    /\ \A name \in DOMAIN project_data : IdentitiesOf(project_data[name]) # {}
    /\ pc # "aggregate" =>
          \A email \in unique_users :
              \E name \in DOMAIN project_data : email \in DOMAIN project_data[name]

====
